---- MODULE Spec2Model ----
(***************************************************************************)
(* Model of src/main.py: the AmoCRM poller that resolves a contact's phone *)
(* through numverify (cached for one hour) and writes country and region   *)
(* back to the contact, at most once per ten minutes for an unchanged      *)
(* phone.                                                                   *)
(*                                                                         *)
(* Python strings on which the code does character work (phone numbers,    *)
(* the location) are sequences of one-character strings; dicts are         *)
(* functions, a missing key being a key outside DOMAIN.                    *)
(***************************************************************************)
EXTENDS Integers, Sequences, FiniteSets, TLC

VARIABLES
    now,            \* the wall clock read by time.time()
    env,            \* which environment variables are set (fixed at start)
    pc,             \* position of main_loop: "poll" or "loop"
    polls,          \* iterations of `while True` begun so far
    calls,          \* calls of process_contact made so far
    pending,        \* contacts of the current poll the for-loop has not reached
    last_updates,   \* contact_id -> [data, last_update, last_check]
    cached_phones,  \* number_to_send -> <<data, timestamp>>
    ev,             \* what the last step did to the outside world
    written,        \* the PATCH requests sent so far, oldest first (kept only
                    \* by the specifications that say so)
    threads,        \* the calls of process_contact in flight, when it is
                    \* entered by several threads
    overlapped      \* two such calls have been in flight at the same time

vars ==
    <<now, env, pc, polls, calls, pending, last_updates, cached_phones, ev,
      written, threads, overlapped>>

(***************************************************************************)
(* Bounds of the model.                                                    *)
(***************************************************************************)
MaxPolls == 2          \* iterations of main_loop's `while True`
MaxCalls == 3          \* calls of process_contact in one run
MaxPrefix == 2         \* leading characters of a phone drawn freely
MaxLen == 13           \* characters of a phone given to send_to_numverify
MaxDashes == 2         \* dashes among the characters after the prefix
MaxThreads == 2        \* threads that can be inside process_contact at once
MaxClock == 600        \* the clock stops here when threads are modelled

(***************************************************************************)
(* Program constants.                                                      *)
(***************************************************************************)
cache_lifetime == 3600
update_delay == 600
POLL_SLEEP == 30
PHONE_FIELD_CODE == "PHONE"
COUNTRY_DEFAULT == "Ne opredeleno"
LOCATION_DEFAULT == <<"R", "e", "g", "i", "o", "n", " ", "n", "/", "o">>

\* JSON null / Python None where a string is expected.
None == <<"None">>

\* dict.get(key, default)
Get(d, k, default) == IF k \in DOMAIN d THEN d[k] ELSE default

EmptyDict == [k \in {} |-> TRUE]

(***************************************************************************)
(* send_to_numverify: normalisation, cache, external call.                 *)
(***************************************************************************)
Digits == {"0", "1", "2", "3", "4", "5", "6", "7", "8", "9"}

IsDigit(c) == c \in Digits

\* re.sub(r'\D', '', phone)
re_sub_nondigits(phone) == SelectSeq(phone, IsDigit)

\* number_to_send, were the domestic prefix 8 dropped like the 7
number_to_send_drop8(phone) ==
    LET digits == re_sub_nondigits(phone)
    IN  IF Len(digits) = 11 /\ digits[1] \in {"7", "8"} THEN Tail(digits) ELSE digits

number_to_send(phone) ==
    LET digits == re_sub_nondigits(phone)
    IN  IF Len(digits) = 11 /\ digits[1] = "7" THEN Tail(digits) ELSE digits

\* CacheFresh, were the age compared with <=
CacheFresh_inclusive(cache, n, t) ==
    n \in DOMAIN cache /\ t - cache[n][2] <= cache_lifetime

\* the cache test of send_to_numverify at time t
CacheFresh(cache, n, t) ==
    n \in DOMAIN cache /\ t - cache[n][2] < cache_lifetime

\* d with key k (re)bound to v
Put(d, k, v) == [x \in DOMAIN d \cup {k} |-> IF x = k THEN v ELSE d[x]]

\* send_to_numverify, were the answer stored before its validity is looked at
send_to_numverify_caches_invalid(phone, t, cache, key_set, resp) ==
    LET n == number_to_send(phone)
    IN  IF CacheFresh(cache, n, t)
        THEN [raised |-> FALSE, data |-> cache[n][1], cache |-> cache, called |-> FALSE]
        ELSE IF ~key_set
        THEN [raised |-> TRUE, data |-> EmptyDict, cache |-> cache, called |-> FALSE]
        ELSE IF resp.ok
        THEN IF ~Get(resp.json, "valid", FALSE)
             THEN [raised |-> FALSE, data |-> EmptyDict,
                   cache |-> Put(cache, n, <<resp.json, t>>), called |-> TRUE]
             ELSE [raised |-> FALSE, data |-> resp.json,
                   cache |-> Put(cache, n, <<resp.json, t>>), called |-> TRUE]
        ELSE [raised |-> TRUE, data |-> EmptyDict, cache |-> cache, called |-> TRUE]

\* send_to_numverify, were a failed exchange answered with {} instead of raising
send_to_numverify_swallows_error(phone, t, cache, key_set, resp) ==
    LET n == number_to_send(phone)
    IN  IF CacheFresh(cache, n, t)
        THEN [raised |-> FALSE, data |-> cache[n][1], cache |-> cache, called |-> FALSE]
        ELSE IF ~key_set
        THEN [raised |-> TRUE, data |-> EmptyDict, cache |-> cache, called |-> FALSE]
        ELSE IF resp.ok
        THEN IF ~Get(resp.json, "valid", FALSE)
             THEN [raised |-> FALSE, data |-> EmptyDict, cache |-> cache, called |-> TRUE]
             ELSE [raised |-> FALSE, data |-> resp.json,
                   cache |-> Put(cache, n, <<resp.json, t>>), called |-> TRUE]
        ELSE [raised |-> FALSE, data |-> EmptyDict, cache |-> cache, called |-> TRUE]

\* send_to_numverify, were an invalid number raised like a failed exchange
send_to_numverify_invalid_raises(phone, t, cache, key_set, resp) ==
    LET n == number_to_send(phone)
    IN  IF CacheFresh(cache, n, t)
        THEN [raised |-> FALSE, data |-> cache[n][1], cache |-> cache, called |-> FALSE]
        ELSE IF ~key_set
        THEN [raised |-> TRUE, data |-> EmptyDict, cache |-> cache, called |-> FALSE]
        ELSE IF resp.ok
        THEN IF ~Get(resp.json, "valid", FALSE)
             THEN [raised |-> TRUE, data |-> EmptyDict, cache |-> cache, called |-> TRUE]
             ELSE [raised |-> FALSE, data |-> resp.json,
                   cache |-> Put(cache, n, <<resp.json, t>>), called |-> TRUE]
        ELSE [raised |-> TRUE, data |-> EmptyDict, cache |-> cache, called |-> TRUE]

\* Result of send_to_numverify(phone) at time t with cache `cache`, when the
\* HTTP exchange (if one happens) ends as resp.  raised: an Exception leaves
\* the function; called: requests.get was issued.
send_to_numverify(phone, t, cache, key_set, resp) ==
    LET n == number_to_send(phone)
    IN  IF CacheFresh(cache, n, t)
        THEN [raised |-> FALSE, data |-> cache[n][1], cache |-> cache, called |-> FALSE]
        ELSE IF ~key_set
        THEN [raised |-> TRUE, data |-> EmptyDict, cache |-> cache, called |-> FALSE]
        ELSE IF resp.ok
        THEN IF ~Get(resp.json, "valid", FALSE)
             THEN [raised |-> FALSE, data |-> EmptyDict, cache |-> cache, called |-> TRUE]
             ELSE [raised |-> FALSE, data |-> resp.json,
                   cache |-> Put(cache, n, <<resp.json, t>>), called |-> TRUE]
        ELSE [raised |-> TRUE, data |-> EmptyDict, cache |-> cache, called |-> TRUE]

(***************************************************************************)
(* get_phone_from_contact                                                  *)
(***************************************************************************)
RECURSIVE first_phone(_)
first_phone(custom_fields) ==
    IF custom_fields = <<>> THEN None
    ELSE LET field == Head(custom_fields)
             values == Get(field, "values", <<>>)
         IN  IF Get(field, "field_code", "") = PHONE_FIELD_CODE /\ values # <<>>
             THEN Get(values[1], "value", None)
             ELSE first_phone(Tail(custom_fields))

\* contact.get('custom_fields_values') or []: a null value is the empty list
get_phone_from_contact(contact) ==
    first_phone(Get(contact, "custom_fields_values", <<>>))

(***************************************************************************)
(* str.strip()                                                             *)
(***************************************************************************)
Whitespace == {" "}

RECURSIVE lstrip(_)
lstrip(s) ==
    IF s # <<>> /\ Head(s) \in Whitespace THEN lstrip(Tail(s)) ELSE s

RECURSIVE rstrip(_)
rstrip(s) ==
    IF s # <<>> /\ s[Len(s)] \in Whitespace
    THEN rstrip(SubSeq(s, 1, Len(s) - 1)) ELSE s

strip(s) == rstrip(lstrip(s))

(***************************************************************************)
(* update_contact: returns nothing in every case, so its caller cannot     *)
(* tell what happened.  patch is how the PATCH exchange ends: "ok", or     *)
(* "failed" (an error status or an exception; either is only printed).     *)
(* The value is what happened to the contact in AmoCRM: "none" (no request *)
(* was sent), "ok" (the fields were written) or "failed".                  *)
(***************************************************************************)
update_contact(contact_id, amo_set, patch) ==
    IF contact_id = 0 \/ ~amo_set THEN "none" ELSE patch

(***************************************************************************)
(* process_contact                                                         *)
(***************************************************************************)
\* contact.get("id"), with 0 standing for every falsy id (missing, null, 0)
contact_id_of(contact) == Get(contact, "id", 0)

\* NoPhone, were only a missing phone tested (`phone is None`)
NoPhone_only_None(phone) == phone = None

\* `not phone`
NoPhone(phone) == phone = None \/ phone = <<>>

\* Suppressed, were the phones compared as numbers
Suppressed_by_number(updates, contact_id, phone, now_time) ==
    /\ contact_id \in DOMAIN updates
    /\ number_to_send(updates[contact_id].data[1]) = number_to_send(phone)
    /\ now_time - updates[contact_id].last_update < update_delay

\* Suppressed, were an unchanged phone never written again
Suppressed_while_unchanged(updates, contact_id, phone, now_time) ==
    /\ contact_id \in DOMAIN updates
    /\ updates[contact_id].data[1] = phone

\* the window one second short
Suppressed_short_window(updates, contact_id, phone, now_time) ==
    /\ contact_id \in DOMAIN updates
    /\ updates[contact_id].data[1] = phone
    /\ now_time - updates[contact_id].last_update < update_delay - 1

\* Suppressed, were the age compared with <=
Suppressed_inclusive(updates, contact_id, phone, now_time) ==
    /\ contact_id \in DOMAIN updates
    /\ updates[contact_id].data[1] = phone
    /\ now_time - updates[contact_id].last_update <= update_delay

\* the suppression test: same raw phone, last update under update_delay ago
Suppressed(updates, contact_id, phone, now_time) ==
    /\ contact_id \in DOMAIN updates
    /\ updates[contact_id].data[1] = phone
    /\ now_time - updates[contact_id].last_update < update_delay

country_of(phone_info) == Get(phone_info, "country_name", COUNTRY_DEFAULT)

\* phone_info.get("location", "").strip() or "..." ; None has no strip()
location_raises(phone_info) == Get(phone_info, "location", <<>>) = None

location_of(phone_info) ==
    LET stripped == strip(Get(phone_info, "location", <<>>))
    IN  IF stripped = <<>> THEN LOCATION_DEFAULT ELSE stripped

\* the entry process_contact stores after update_contact has returned
updated_entry(phone, country, location_value, now_time) ==
    [data |-> <<phone, country, location_value>>,
     last_update |-> now_time,
     last_check |-> now_time]

\* the skip branch, were the entry stamped afresh
checked_entry_restamped(entry, now_time) ==
    [entry EXCEPT !.last_check = now_time, !.last_update = now_time]

\* the skip branch, were the bump of last_check forgotten
checked_entry_not_bumped(entry, now_time) == entry

\* checked_entry, were the wrong timestamp refreshed
checked_entry_moves_update(entry, now_time) ==
    [entry EXCEPT !.last_update = now_time]

\* the entry after a suppressed observation
checked_entry(entry, now_time) == [entry EXCEPT !.last_check = now_time]

\* what one call did: ev is its trace (numverify: "none", "hit" when the
\* cache answered, else what the validation service answered; patch: the
\* value of update_contact; body: the <<country, location>> given to
\* update_contact), raised: an exception left process_contact
Outcome(what, contact_id, phone, info, numverify, patch, body, updates, cache, raised) ==
    [ev |-> [op |-> what, id |-> contact_id, phone |-> phone, phone_info |-> info,
             numverify |-> numverify, patch |-> patch, body |-> body],
     last_updates |-> updates, cached_phones |-> cache, raised |-> raised]

\* what the validation service answered: "error" (unreachable, or a failure
\* status), "invalid" (the validity flag is false or missing) or "valid"
Verdict(resp) ==
    IF ~resp.ok THEN "error"
    ELSE IF Get(resp.json, "valid", FALSE) THEN "valid" ELSE "invalid"

\* process_contact(contact) entered at time now_time; the numverify exchange,
\* if any, ends as resp and the PATCH, if any, as patch.  Both time.time()
\* reads of one call (lines 145 and 36) return now_time.
process_contact(contact, now_time, updates, cache, environ, resp, patch) ==
    LET contact_id == contact_id_of(contact)
        phone == get_phone_from_contact(contact)
        amo_set == environ.AMO_DOMAIN /\ environ.ACCESS_TOKEN
        r == send_to_numverify(phone, now_time, cache,
                               environ.NUMVERIFY_ACCESS_KEY, resp)
        numverify == IF r.called THEN Verdict(resp)
                     ELSE IF r.raised THEN "none" ELSE "hit"
        country == country_of(r.data)
        location_value == location_of(r.data)
    IN  IF contact_id = 0
        THEN Outcome("no_id", 0, None, EmptyDict, "none", "none", <<>>,
                     updates, cache, FALSE)
        ELSE IF NoPhone(phone)
        THEN Outcome("no_phone", contact_id, phone, EmptyDict, "none", "none", <<>>,
                     updates, cache, FALSE)
        ELSE IF Suppressed(updates, contact_id, phone, now_time)
        THEN Outcome("skip", contact_id, phone, EmptyDict, "none", "none", <<>>,
                     [updates EXCEPT ![contact_id] = checked_entry(@, now_time)],
                     cache, FALSE)
        ELSE IF r.raised
        THEN Outcome("numverify_error", contact_id, phone, EmptyDict, numverify,
                     "none", <<>>, updates, cache, FALSE)
        ELSE IF location_raises(r.data)
        THEN Outcome("raised", contact_id, phone, r.data, numverify, "none", <<>>,
                     updates, r.cache, TRUE)
        ELSE Outcome("updated", contact_id, phone, r.data, numverify,
                     update_contact(contact_id, amo_set, patch),
                     <<country, location_value>>,
                     Put(updates, contact_id,
                         updated_entry(phone, country, location_value, now_time)),
                     r.cache, FALSE)

(***************************************************************************)
(* Inputs                                                                  *)
(***************************************************************************)
PhonePlus7 ==
    <<"+", "7", " ", "(", "9", "1", "2", ")", " ",
      "3", "4", "5", "-", "6", "7", "-", "8", "9">>
Phone8 == <<"8", "9", "1", "2", "3", "4", "5", "6", "7", "8", "9">>
Phone7 == <<"7", "9", "1", "2", "3", "4", "5", "6", "7", "8", "9">>

PhoneField(value) ==
    [field_code |-> PHONE_FIELD_CODE, values |-> <<[value |-> value]>>]

Contacts ==
    {[id |-> 1, custom_fields_values |-> <<PhoneField(p)>>] :
        p \in {PhonePlus7, Phone7}}
    \cup
    {[id |-> 2, custom_fields_values |-> <<PhoneField(p)>>] :
        p \in {PhonePlus7, Phone8}}
    \cup
    { [custom_fields_values |-> <<PhoneField(PhonePlus7)>>],
      [id |-> 0, custom_fields_values |-> <<PhoneField(Phone8)>>],
      [id |-> 1],
      [id |-> 1, custom_fields_values |-> <<>>],
      [id |-> 1, custom_fields_values |-> <<PhoneField(<<>>)>>],
      [id |-> 2, custom_fields_values |->
          <<[field_code |-> "EMAIL", values |-> <<[value |-> Phone8]>>],
            [field_code |-> PHONE_FIELD_CODE, values |-> <<>>],
            [field_code |-> PHONE_FIELD_CODE, values |-> <<[enum_code |-> "WORK"]>>]>>],
      [id |-> 2, custom_fields_values |->
          <<[field_code |-> PHONE_FIELD_CODE, values |-> <<>>],
            PhoneField(Phone8)>>] }

Moscow == <<" ", "M", "o", "s", "c", "o", "w", " ">>

\* bodies the validation service can answer with
Bodies ==
    { [valid |-> TRUE, country_name |-> "Russia", location |-> Moscow],
      [valid |-> TRUE, country_name |-> "", location |-> <<" ", " ">>],
      [valid |-> TRUE, country_name |-> "Russia", location |-> None],
      [valid |-> FALSE, country_name |-> "", location |-> <<>>],
      EmptyDict }

\* how requests.get(url) of send_to_numverify can end: an exception, an
\* error status, or a 2xx status with a JSON body
Responses ==
    {[ok |-> FALSE, json |-> EmptyDict]} \cup {[ok |-> TRUE, json |-> b] : b \in Bodies}

PatchResults == {"ok", "failed"}

\* seconds from one poll to the next: time.sleep(30) and the time the
\* requests took
SleepTimes ==
    {d \in {update_delay - 1, update_delay, cache_lifetime - 1, cache_lifetime} :
        d >= POLL_SLEEP}

Environments ==
    [NUMVERIFY_ACCESS_KEY : BOOLEAN, AMO_DOMAIN : BOOLEAN, ACCESS_TOKEN : BOOLEAN]

(***************************************************************************)
(* The state machine: main_loop                                            *)
(***************************************************************************)
NoEvent ==
    [op |-> "start", id |-> 0, phone |-> None, phone_info |-> EmptyDict,
     numverify |-> "none", patch |-> "none", body |-> <<>>]

Init ==
    /\ now = 0
    /\ env \in Environments
    /\ pc = "poll"
    /\ polls = 0
    /\ calls = 0
    /\ pending = 0
    /\ last_updates = EmptyDict
    /\ cached_phones = EmptyDict
    /\ ev = NoEvent
    /\ written = <<>>
    /\ threads = EmptyDict
    /\ overlapped = FALSE

\* poll_contacts() raises (no credentials, or requests.get raises): main_loop
\* prints the error and goes to sleep
PollFails ==
    /\ pc = "poll"
    /\ polls' = polls + 1
    /\ pc' = "loop"
    /\ pending' = 0
    /\ ev' = [NoEvent EXCEPT !.op = "poll_error"]
    /\ UNCHANGED <<now, env, calls, last_updates, cached_phones>>
    /\ UNCHANGED <<written, threads, overlapped>>

\* poll_contacts() returns a list of n contacts (as many as the run has calls
\* left for)
PollContacts ==
    /\ pc = "poll"
    /\ env.AMO_DOMAIN /\ env.ACCESS_TOKEN
    /\ polls' = polls + 1
    /\ \E n \in 0..(MaxCalls - calls) : pending' = n
    /\ pc' = "loop"
    /\ ev' = [NoEvent EXCEPT !.op = "poll"]
    /\ UNCHANGED <<now, env, calls, last_updates, cached_phones>>
    /\ UNCHANGED <<written, threads, overlapped>>

\* the endings of the numverify exchange to draw for a call: every one when
\* the call issues the request, a single one when it does not
ResponsesFor(contact) ==
    LET some == CHOOSE resp \in Responses : TRUE
        out == process_contact(contact, now, last_updates, cached_phones, env,
                               some, "ok")
    IN  IF out.ev.numverify \in {"none", "hit"} THEN {some} ELSE Responses

\* likewise for the PATCH
PatchResultsFor(contact, resp) ==
    LET out == process_contact(contact, now, last_updates, cached_phones, env,
                               resp, "ok")
    IN  IF out.ev.patch = "none" THEN {"ok"} ELSE PatchResults

\* the contacts polled when the PATCH requests are logged: contact 1 in all
\* its forms, and contact 2 with a phone of the same number
LoggedContacts ==
    {contact \in Contacts : contact_id_of(contact) = 1}
    \cup {[id |-> 2, custom_fields_values |-> <<PhoneField(PhonePlus7)>>]}

\* one PATCH request as `written` keeps it: whose contact, the raw phone the
\* call observed, and the observation time the call stores as last_update
Patch(contact_id, phone, now_time) ==
    [id |-> contact_id, phone |-> phone, at |-> now_time]

\* one iteration of `for contact in contacts: process_contact(contact)`; an
\* exception that leaves process_contact ends the loop.  With logging, the
\* PATCH the call sends is appended to `written`, and the contacts are
\* LoggedContacts.
ProcessStep(logging) ==
    /\ pc = "loop"
    /\ pending > 0
    /\ \E contact \in (IF logging THEN LoggedContacts ELSE Contacts) :
       \E resp \in ResponsesFor(contact) :
       \E patch \in PatchResultsFor(contact, resp) :
          LET out == process_contact(contact, now, last_updates,
                                     cached_phones, env, resp, patch)
          IN  /\ last_updates' = out.last_updates
              /\ cached_phones' = out.cached_phones
              /\ ev' = out.ev
              /\ pending' = IF out.raised THEN 0 ELSE pending - 1
              /\ written' = IF logging /\ out.ev.patch # "none"
                            THEN Append(written,
                                        Patch(out.ev.id, out.ev.phone, now))
                            ELSE written
    /\ calls' = calls + 1
    /\ UNCHANGED <<now, env, pc, polls, threads, overlapped>>

ProcessContact == ProcessStep(FALSE)

ProcessContactLogged == ProcessStep(TRUE)

\* the loop is over: time.sleep(30), then the next iteration of `while True`
Sleep ==
    /\ pc = "loop"
    /\ pending = 0
    /\ polls < MaxPolls
    /\ \E d \in SleepTimes : now' = now + d
    /\ pc' = "poll"
    /\ ev' = [NoEvent EXCEPT !.op = "sleep"]
    /\ UNCHANGED <<env, polls, calls, pending, last_updates, cached_phones>>
    /\ UNCHANGED <<written, threads, overlapped>>

Next == PollFails \/ PollContacts \/ ProcessContact \/ Sleep

Spec == Init /\ [][Next]_vars

\* main_loop with the PATCH requests it sends kept in `written`
NextLogged == PollFails \/ PollContacts \/ ProcessContactLogged \/ Sleep

SpecLogged == Init /\ [][NextLogged]_vars

(***************************************************************************)
(* send_to_numverify on its own, over phone strings built character by    *)
(* character: a free prefix, then nines and dashes.  The environment has   *)
(* the access key and numverify answers with a valid result, so the number *)
(* requested is the key the result is cached under.                        *)
(***************************************************************************)
PrefixChars == {"+", "7", "8"}

TailChars == {"9", "-"}

PhonePrefixes ==
    UNION {[1..n -> PrefixChars] : n \in 0..MaxPrefix}

ValidResponse ==
    [ok |-> TRUE,
     json |-> [valid |-> TRUE, country_name |-> "Russia", location |-> Moscow]]

InitNormalize ==
    /\ now = 0
    /\ env = [NUMVERIFY_ACCESS_KEY |-> TRUE, AMO_DOMAIN |-> TRUE,
              ACCESS_TOKEN |-> TRUE]
    /\ pc = "input"
    /\ polls = 0
    /\ calls = 0
    /\ pending = 0
    /\ last_updates = EmptyDict
    /\ cached_phones = EmptyDict
    /\ \E phone \in PhonePrefixes : ev = [NoEvent EXCEPT !.phone = phone]
    /\ written = <<>>
    /\ threads = EmptyDict
    /\ overlapped = FALSE

\* one more character of the phone string
TypeChar ==
    /\ pc = "input"
    /\ Len(ev.phone) < MaxLen
    /\ \E c \in TailChars :
          /\ c = "-" =>
                Cardinality({i \in 1..Len(ev.phone) : ev.phone[i] = "-"})
                    < MaxDashes
          /\ ev' = [ev EXCEPT !.phone = Append(ev.phone, c)]
    /\ UNCHANGED <<now, env, pc, polls, calls, pending, last_updates,
                   cached_phones, written, threads, overlapped>>

\* send_to_numverify(phone) with an empty cache
NormalizeAndResolve ==
    /\ pc = "input"
    /\ LET r == send_to_numverify(ev.phone, now, cached_phones,
                                  env.NUMVERIFY_ACCESS_KEY, ValidResponse)
       IN  /\ cached_phones' = r.cache
           /\ ev' = [ev EXCEPT !.op = "resolved", !.phone_info = r.data,
                               !.numverify = Verdict(ValidResponse)]
    /\ pc' = "resolved"
    /\ UNCHANGED <<now, env, polls, calls, pending, last_updates, written,
                   threads, overlapped>>

NextNormalize == TypeChar \/ NormalizeAndResolve

SpecNormalize == InitNormalize /\ [][NextNormalize]_vars

(***************************************************************************)
(* process_contact entered by several threads for one contact, as a host   *)
(* HTTP server does with a request handler.  A call is split where it      *)
(* blocks on the network: the suppression test (entry), the numverify      *)
(* exchange, the PATCH, and the assignment to last_updates.  Each part is  *)
(* one step; the parts of different calls interleave freely, and nothing   *)
(* in the code locks last_updates or cached_phones.                        *)
(***************************************************************************)
Threads == 1..MaxThreads

ConcurrentContacts ==
    {[id |-> 1, custom_fields_values |-> <<PhoneField(p)>>] :
        p \in {PhonePlus7, Phone7}}

\* seconds that can pass between two steps
ConcurrentDelays == {update_delay - 1, update_delay}

\* the locals of a call in flight
Frame(at, contact_id, phone, now_time, country, location_value) ==
    [pc |-> at, id |-> contact_id, phone |-> phone, now_time |-> now_time,
     country |-> country, location_value |-> location_value]

\* d without key k
Drop(d, k) == [x \in DOMAIN d \ {k} |-> d[x]]

InitConcurrent ==
    /\ now = 0
    /\ env = [NUMVERIFY_ACCESS_KEY |-> TRUE, AMO_DOMAIN |-> TRUE,
              ACCESS_TOKEN |-> TRUE]
    /\ pc = "serve"
    /\ polls = 0
    /\ calls = 0
    /\ pending = 0
    /\ last_updates = EmptyDict
    /\ cached_phones = EmptyDict
    /\ ev = NoEvent
    /\ written = <<>>
    /\ threads = EmptyDict
    /\ overlapped = FALSE

\* thread i enters process_contact: contact id, phone, now_time, and the
\* suppression test with its skip branch
Enter(i) ==
    /\ i \notin DOMAIN threads
    /\ calls < MaxCalls
    /\ \E contact \in ConcurrentContacts :
          LET contact_id == contact_id_of(contact)
              phone == get_phone_from_contact(contact)
          IN  IF Suppressed(last_updates, contact_id, phone, now)
              THEN /\ last_updates' =
                        [last_updates EXCEPT
                            ![contact_id] = checked_entry(@, now)]
                   /\ threads' = threads
              ELSE /\ last_updates' = last_updates
                   /\ threads' = Put(threads, i,
                                     Frame("resolve", contact_id, phone, now,
                                           "", <<>>))
    /\ overlapped' = (overlapped \/ threads # EmptyDict)
    /\ calls' = calls + 1
    /\ UNCHANGED <<now, env, pc, ev, polls, pending, cached_phones, written>>

\* thread i in send_to_numverify, and the derivation of country and
\* location_value from what it returned
Resolve(i) ==
    /\ i \in DOMAIN threads
    /\ threads[i].pc = "resolve"
    /\ \E resp \in Responses :
          LET f == threads[i]
              r == send_to_numverify(f.phone, now, cached_phones,
                                     env.NUMVERIFY_ACCESS_KEY, resp)
          IN  /\ cached_phones' = r.cache
              /\ IF r.raised \/ location_raises(r.data)
                 THEN /\ threads' = Drop(threads, i)
                 ELSE /\ threads' =
                           [threads EXCEPT
                               ![i] = Frame("update", f.id, f.phone, f.now_time,
                                            country_of(r.data),
                                            location_of(r.data))]
    /\ UNCHANGED <<now, env, pc, ev, polls, calls, pending, last_updates, written,
                   overlapped>>

\* thread i in update_contact: the PATCH request
Update(i) ==
    /\ i \in DOMAIN threads
    /\ threads[i].pc = "update"
    /\ \E patch \in PatchResults :
          LET f == threads[i]
              sent == update_contact(f.id, env.AMO_DOMAIN /\ env.ACCESS_TOKEN,
                                     patch)
          IN  /\ written' = IF sent # "none"
                            THEN Append(written, Patch(f.id, f.phone, f.now_time))
                            ELSE written
    /\ threads' = [threads EXCEPT ![i].pc = "record"]
    /\ UNCHANGED <<now, env, pc, ev, polls, calls, pending, last_updates,
                   cached_phones, overlapped>>

\* thread i assigns last_updates[contact_id] and returns
Record(i) ==
    /\ i \in DOMAIN threads
    /\ threads[i].pc = "record"
    /\ LET f == threads[i]
       IN  /\ last_updates' =
                 Put(last_updates, f.id,
                     updated_entry(f.phone, f.country, f.location_value,
                                   f.now_time))
    /\ threads' = Drop(threads, i)
    /\ UNCHANGED <<now, env, pc, ev, polls, calls, pending, cached_phones, written,
                   overlapped>>

\* time passes
Pass ==
    /\ \E d \in ConcurrentDelays :
          /\ now + d <= MaxClock
          /\ now' = now + d
    /\ UNCHANGED <<env, pc, ev, polls, calls, pending, last_updates, cached_phones,
                   written, threads, overlapped>>

NextConcurrent ==
    \/ \E i \in Threads : Enter(i)
    \/ \E i \in Threads : Resolve(i)
    \/ \E i \in Threads : Update(i)
    \/ \E i \in Threads : Record(i)
    \/ Pass

SpecConcurrent == InitConcurrent /\ [][NextConcurrent]_vars

(***************************************************************************)
(* Vocabulary of the properties                                            *)
(***************************************************************************)
\* the steps that are a call of process_contact
Observations ==
    {"no_id", "no_phone", "skip", "numverify_error", "raised", "updated"}

\* re.sub(r'\D', '', s), character by character
RECURSIVE DigitsOf(_)
DigitsOf(s) ==
    IF s = <<>> THEN <<>>
    ELSE (IF Head(s) \in {"0", "1", "2", "3", "4", "5", "6", "7", "8", "9"}
          THEN <<Head(s)>> ELSE <<>>) \o DigitsOf(Tail(s))

\* the number a phone string stands for: its digits, without the first when
\* there are 11 and the first is "7"
NumberOf(s) ==
    LET d == DigitsOf(s)
    IN  IF Len(d) = 11 /\ d[1] = "7" THEN Tail(d) ELSE d

\* the calls of process_contact that reached send_to_numverify
Resolutions == {"numverify_error", "raised", "updated"}

\* the contact's entry is created, or its data or last_update changes
Advanced(c) ==
    /\ c \in DOMAIN last_updates'
    /\ \/ c \notin DOMAIN last_updates
       \/ last_updates'[c].data # last_updates[c].data
       \/ last_updates'[c].last_update # last_updates[c].last_update

Placeholders == <<COUNTRY_DEFAULT, LOCATION_DEFAULT>>

TenDigitKey == <<"9", "1", "2", "3", "4", "5", "6", "7", "8", "9">>

(***************************************************************************)
(* C1 (as claimed; the code violates it).  Write-failure non-persistence:  *)
(* a contact's ContactUpdateState is created or advanced only by a call    *)
(* whose CRM write for that contact succeeded; a call that decides to      *)
(* write and whose write fails leaves last_updates as it was, so           *)
(* last_known is always the data of the last successful CRM update and     *)
(* the same observation, made again, is not skipped.                       *)
(***************************************************************************)
C1_WriteFailureNonPersistence ==
    [][ /\ (ev'.op = "updated" /\ ev'.patch # "ok" => last_updates' = last_updates)
        /\ \A c \in DOMAIN last_updates' :
              Advanced(c) => ev'.id = c /\ ev'.patch = "ok"
        /\ ( /\ ev.op = "updated" /\ ev.patch # "ok"
             /\ ev'.op \in Observations
             /\ ev'.id = ev.id /\ ev'.phone = ev.phone )
           => ev'.op # "skip" ]_vars

(***************************************************************************)
(* C2.  Suppression window: a call that observes, for a contact with a     *)
(* stored entry, exactly the stored raw phone is a Skip (no validation     *)
(* call, no CRM write) when less than 600 seconds have passed since        *)
(* last_update; from 600 seconds on it is not suppressed, and when         *)
(* validation yields a result (whose location is a string or missing) it   *)
(* sends a CRM write and stamps a fresh last_update.                       *)
(***************************************************************************)
C2_SuppressionWindow ==
    [][ \A c \in DOMAIN last_updates :
          ( /\ ev'.op \in Observations
            /\ ev'.id = c
            /\ ev'.phone = last_updates[c].data[1] )
          =>
          IF now - last_updates[c].last_update < 600
          THEN /\ ev'.op = "skip"
               /\ ev'.numverify = "none"
               /\ ev'.patch = "none"
               /\ cached_phones' = cached_phones
          ELSE /\ ev'.op \in Resolutions
               /\ ( /\ ev'.numverify \in {"hit", "valid", "invalid"}
                    /\ Get(ev'.phone_info, "location", <<>>) # None )
                  => /\ ev'.op = "updated"
                     /\ ev'.patch # "none"
                     /\ last_updates'[c].last_update = now ]_vars

\* a repeated observation 599 seconds after the write was skipped
C2_Witness ==
    /\ ev.op = "skip"
    /\ now - last_updates[ev.id].last_update = 599

(***************************************************************************)
(* C3 (as claimed; the code violates it).  "+7 (912) 345-67-89" and        *)
(* "89123456789" share one cache entry: once a contact holds either and    *)
(* its entry is fresh, resolving the other makes no external validation    *)
(* call.                                                                   *)
(***************************************************************************)
C3_SameKeyFor8 ==
    [][ \A p, q \in {PhonePlus7, Phone8} :
          ( /\ ev'.op \in Resolutions
            /\ ev'.phone = q
            /\ \E c \in DOMAIN last_updates : last_updates[c].data[1] = p
            /\ CacheFresh(cached_phones, number_to_send(p), now) )
          => ev'.numverify = "hit" ]_vars

(***************************************************************************)
(* C3 (amended).  "+7 (912) 345-67-89" and "79123456789" normalize to the  *)
(* same 10-digit key 9123456789, and once a contact holds either and its   *)
(* entry is fresh, resolving the other makes no external call.             *)
(* "89123456789" keeps its 11 digits as its key, so resolving it while     *)
(* only the 10-digit key is cached calls the validation service.           *)
(***************************************************************************)
C3_SameKeyFor7 ==
    [][ /\ number_to_send(PhonePlus7) = TenDigitKey
        /\ number_to_send(Phone7) = TenDigitKey
        /\ \A p, q \in {PhonePlus7, Phone7} :
              ( /\ ev'.op \in Resolutions
                /\ ev'.phone = q
                /\ \E c \in DOMAIN last_updates : last_updates[c].data[1] = p
                /\ CacheFresh(cached_phones, number_to_send(p), now) )
              => ev'.numverify = "hit" /\ cached_phones' = cached_phones
        /\ ( /\ ev'.op \in Resolutions
             /\ ev'.phone = Phone8
             /\ Phone8 \notin DOMAIN cached_phones
             /\ env.NUMVERIFY_ACCESS_KEY )
           => ev'.numverify \notin {"hit", "none"} ]_vars

\* "79123456789" was answered from the cache while a contact holds the
\* "+7 (912) 345-67-89" form
C3_Witness ==
    /\ ev.op = "updated"
    /\ ev.phone = Phone7
    /\ ev.numverify = "hit"
    /\ \E c \in DOMAIN last_updates : last_updates[c].data[1] = PhonePlus7
    /\ DOMAIN cached_phones = {TenDigitKey}

(***************************************************************************)
(* C4.  Cache TTL: a call that reaches send_to_numverify for a number      *)
(* whose entry is less than 3600 seconds old gets the stored result, with  *)
(* no external call and the cache unchanged; when the entry is 3600        *)
(* seconds old or older the validation service is called again; a result   *)
(* is never served from an entry of age 3600 or more.                      *)
(***************************************************************************)
C4_CacheTTL ==
    [][ ev'.op \in Resolutions =>
          LET n == number_to_send(ev'.phone)
          IN  /\ (n \in DOMAIN cached_phones /\ now - cached_phones[n][2] < 3600)
                    => /\ ev'.numverify = "hit"
                       /\ ev'.phone_info = cached_phones[n][1]
                       /\ cached_phones' = cached_phones
              /\ (n \in DOMAIN cached_phones /\ now - cached_phones[n][2] >= 3600)
                    => ev'.numverify \in {"error", "invalid", "valid"}
              /\ ev'.numverify = "hit"
                    => n \in DOMAIN cached_phones /\ now - cached_phones[n][2] < 3600
        ]_vars

\* a result was served from an entry 3599 seconds old
C4_Witness ==
    /\ ev.op = "updated"
    /\ ev.numverify = "hit"
    /\ now - cached_phones[number_to_send(ev.phone)][2] = 3599

(***************************************************************************)
(* C5.  Invalid numbers are never cached: a call answered "invalid" by the *)
(* validation service gets the empty result and leaves the cache           *)
(* unchanged, and the next resolution of the same number calls the         *)
(* validation service again.                                               *)
(***************************************************************************)
C5_InvalidNeverCached ==
    [][ /\ ev'.numverify = "invalid"
            => ev'.phone_info = EmptyDict /\ cached_phones' = cached_phones
        /\ ( /\ ev.numverify = "invalid"
             /\ ev'.op \in Resolutions
             /\ number_to_send(ev'.phone) = number_to_send(ev.phone) )
            => ev'.numverify \in {"error", "invalid", "valid"} ]_vars

\* two resolutions of one number, both answered "invalid": the first left the
\* placeholders with another contact and nothing in the cache
C5_Witness ==
    /\ ev.numverify = "invalid"
    /\ number_to_send(ev.phone) \notin DOMAIN cached_phones
    /\ \E c \in DOMAIN last_updates :
          /\ c # ev.id
          /\ number_to_send(last_updates[c].data[1]) = number_to_send(ev.phone)
          /\ last_updates[c].last_update = now

(***************************************************************************)
(* C6.  Validation failure mutates nothing: a call whose validation        *)
(* exchange fails (service unreachable, or a failure status) leaves the    *)
(* cache and every contact's entry as they were, attempts no CRM write,    *)
(* and the loop goes on with the contacts that remain.                     *)
(***************************************************************************)
C6_ValidationFailureMutatesNothing ==
    [][ ev'.numverify = "error" =>
          /\ ev'.op = "numverify_error"
          /\ cached_phones' = cached_phones
          /\ last_updates' = last_updates
          /\ ev'.patch = "none"
          /\ pc' = "loop"
          /\ pending' = pending - 1 ]_vars

\* a failed validation with entries and cache populated and a contact left
C6_Witness ==
    /\ ev.numverify = "error"
    /\ pending > 0
    /\ DOMAIN last_updates # {}
    /\ DOMAIN cached_phones # {}

(***************************************************************************)
(* C7.  Timestamp invariant: every stored entry has                        *)
(* last_update <= last_check.                                              *)
(***************************************************************************)
C7_TimestampInvariant ==
    \A c \in DOMAIN last_updates :
        last_updates[c].last_update <= last_updates[c].last_check

\* an entry checked after it was written
C7_Witness ==
    \E c \in DOMAIN last_updates :
        last_updates[c].last_update < last_updates[c].last_check

(***************************************************************************)
(* C8 (as claimed; the code violates it).  Derived write values: the       *)
(* country written and stored is country_name when present and non-empty,  *)
(* else the country placeholder; the region is the trimmed location when   *)
(* non-empty, else the region placeholder.                                 *)
(***************************************************************************)
C8_DerivedWriteValues ==
    [][ ev'.op = "updated" =>
          LET info == ev'.phone_info
              country == IF "country_name" \in DOMAIN info /\ info.country_name # ""
                         THEN info.country_name ELSE COUNTRY_DEFAULT
              trimmed == IF "location" \in DOMAIN info
                         THEN strip(info.location) ELSE <<>>
              region == IF trimmed # <<>> THEN trimmed ELSE LOCATION_DEFAULT
          IN  /\ ev'.body = <<country, region>>
              /\ last_updates'[ev'.id].data = <<ev'.phone, country, region>> ]_vars

(***************************************************************************)
(* C9.  Invalid number still produces a write: a call answered "invalid"   *)
(* is not an error; it sends a CRM write carrying both placeholders and,   *)
(* when the write succeeds, stores (observed phone, placeholders) stamped  *)
(* with the observation time, so that the same observation repeated        *)
(* within 600 seconds is skipped.                                          *)
(***************************************************************************)
C9_InvalidStillWrites ==
    [][ /\ ev'.numverify = "invalid" =>
              /\ ev'.op = "updated"
              /\ ev'.patch # "none"
              /\ ev'.body = Placeholders
              /\ ev'.patch = "ok" =>
                    last_updates'[ev'.id] =
                        [data |-> <<ev'.phone, COUNTRY_DEFAULT, LOCATION_DEFAULT>>,
                         last_update |-> now, last_check |-> now]
        /\ ( /\ ev.numverify = "invalid"
             /\ ev.patch = "ok"
             /\ ev'.op \in Observations
             /\ ev'.id = ev.id
             /\ ev'.phone = ev.phone )
           => ev'.op = "skip" ]_vars

\* a skip, 599 seconds after placeholders were stored for a number that is
\* not in the cache
C9_Witness ==
    /\ ev.op = "skip"
    /\ last_updates[ev.id].data = <<ev.phone, COUNTRY_DEFAULT, LOCATION_DEFAULT>>
    /\ number_to_send(ev.phone) \notin DOMAIN cached_phones
    /\ now - last_updates[ev.id].last_update = 599

(***************************************************************************)
(* C10.  Absent phone is a pure Skip: a call for a contact whose phone is  *)
(* absent or empty makes no validation call and no CRM write and leaves    *)
(* the cache and every entry (last_check included) as they were.           *)
(***************************************************************************)
C10_AbsentPhonePureSkip ==
    [][ ( /\ ev'.op \in Observations
          /\ ev'.id # 0
          /\ ev'.phone \in {None, <<>>} )
        => /\ ev'.op = "no_phone"
           /\ ev'.numverify = "none"
           /\ ev'.patch = "none"
           /\ cached_phones' = cached_phones
           /\ last_updates' = last_updates ]_vars

\* an empty phone observed for a contact whose entry was last checked earlier
C10_Witness ==
    /\ ev.op = "no_phone"
    /\ ev.phone = <<>>
    /\ ev.id \in DOMAIN last_updates
    /\ last_updates[ev.id].last_check < now

(***************************************************************************)
(* C11 (as claimed; the code violates it).  At most one write per window:  *)
(* in a single-threaded run, any two PATCH requests for one contact that   *)
(* carry the same raw phone have observation times at least 600 seconds    *)
(* apart.                                                                  *)
(***************************************************************************)
C11_AnyTwoWritesApart ==
    \A i, j \in 1..Len(written) :
        ( /\ i < j
          /\ written[i].id = written[j].id
          /\ written[i].phone = written[j].phone )
        => written[j].at - written[i].at >= 600

(***************************************************************************)
(* C11 (amended).  In a single-threaded run, two PATCH requests for one    *)
(* contact that carry the same raw phone, with no PATCH for that contact   *)
(* carrying another phone between them, have observation times at least   *)
(* 600 seconds apart.                                                      *)
(***************************************************************************)
C11_UnchangedWritesApart ==
    \A i, j \in 1..Len(written) :
        ( /\ i < j
          /\ written[i].id = written[j].id
          /\ written[i].phone = written[j].phone
          /\ \A k \in (i + 1)..(j - 1) :
                written[k].id = written[i].id
                    => written[k].phone = written[i].phone )
        => written[j].at - written[i].at >= 600

\* the same contact and phone written twice, 600 seconds apart
C11_Witness ==
    /\ Len(written) = 2
    /\ written[1].id = written[2].id
    /\ written[1].phone = written[2].phone
    /\ written[2].at - written[1].at = 600

(***************************************************************************)
(* C12 (as claimed; the code violates it).  For a contact that already has *)
(* an entry in last_updates, every observation of the contact sets         *)
(* last_check to the observation time, whether it is skipped, written, or  *)
(* ends without a write.                                                   *)
(***************************************************************************)
C12_BumpedOnEveryObservation ==
    [][ ( /\ ev'.op \in Observations
          /\ ev'.id \in DOMAIN last_updates )
        => ( /\ ev'.id \in DOMAIN last_updates'
             /\ last_updates'[ev'.id].last_check = now )
      ]_vars

(***************************************************************************)
(* C12 (amended).  For a contact that already has an entry, an observation *)
(* that is skipped or that reaches the write sets last_check to the        *)
(* observation time; an observation that ends before the write (no phone,  *)
(* validation failed, exception) leaves last_check as it was.              *)
(***************************************************************************)
C12_BumpedOnSkipAndWrite ==
    [][ ( /\ ev'.op \in Observations
          /\ ev'.id \in DOMAIN last_updates )
        => /\ ev'.id \in DOMAIN last_updates'
           /\ last_updates'[ev'.id].last_check =
                IF ev'.op \in {"skip", "updated"}
                THEN now
                ELSE last_updates[ev'.id].last_check
      ]_vars

\* a contact with an entry was observed later, validation failed, and
\* last_check still has the earlier time
C12_Witness ==
    /\ ev.op = "numverify_error"
    /\ ev.id \in DOMAIN last_updates
    /\ last_updates[ev.id].last_check < now

(***************************************************************************)
(* C13.  Normalization rule: the number send_to_numverify requests and     *)
(* caches under is the input with every non-digit removed, and with the    *)
(* first digit dropped exactly when there are 11 digits and the first is   *)
(* "7"; any other digit string is left as it is.                           *)
(***************************************************************************)
C13_NormalizationRule ==
    pc = "resolved" =>
        LET d == DigitsOf(ev.phone)
        IN  DOMAIN cached_phones =
                {IF Len(d) = 11 /\ d[1] = "7" THEN Tail(d) ELSE d}

\* a phone with punctuation and 11 digits from "7" on, cached under the
\* 10 digits after the "7"
C13_Witness ==
    /\ pc = "resolved"
    /\ Len(ev.phone) > 11
    /\ Len(DigitsOf(ev.phone)) = 11
    /\ Head(DigitsOf(ev.phone)) = "7"
    /\ DOMAIN cached_phones = {Tail(DigitsOf(ev.phone))}

(***************************************************************************)
(* C14 (as claimed; the code violates it).  Failure isolation in the poll  *)
(* cycle: whatever happens in one call of process_contact (validation      *)
(* unavailable, malformed validation response, PATCH failure), the         *)
(* contacts of the cycle that were still to come are all still to come     *)
(* after it, and the loop stays in its cycle.                              *)
(***************************************************************************)
C14_FailureIsolation ==
    [][ ev'.op \in Observations
        => /\ pending' = pending - 1
           /\ pc' = "loop"
      ]_vars

(***************************************************************************)
(* C15.  Frame of a suppressed skip: when a contact is observed with the   *)
(* raw phone of its entry and now - last_update < 600, the call changes    *)
(* only last_check of that contact, to now.  Its data and last_update, the *)
(* entries of the other contacts and the cache stay as they are, and       *)
(* nothing is requested from numverify or AmoCRM; so the window still ends *)
(* 600 seconds after the write.                                            *)
(***************************************************************************)
C15_SkipFrame ==
    [][ \A c \in DOMAIN last_updates :
          ( /\ ev'.op \in Observations
            /\ ev'.id = c
            /\ ev'.phone = last_updates[c].data[1]
            /\ now - last_updates[c].last_update < 600 )
          =>
          /\ last_updates' = [last_updates EXCEPT ![c].last_check = now]
          /\ last_updates'[c].data = last_updates[c].data
          /\ last_updates'[c].last_update = last_updates[c].last_update
          /\ \A d \in DOMAIN last_updates \ {c} :
                last_updates'[d] = last_updates[d]
          /\ cached_phones' = cached_phones
          /\ ev'.numverify = "none"
          /\ ev'.patch = "none"
      ]_vars

\* a skip later than the write, with another contact's entry and a cache
\* entry in the state
C15_Witness ==
    /\ ev.op = "skip"
    /\ last_updates[ev.id].last_check = now
    /\ last_updates[ev.id].last_update < now
    /\ DOMAIN last_updates = {1, 2}
    /\ cached_phones # EmptyDict

(***************************************************************************)
(* C16 (as claimed; the code violates it).  Raw-string comparison forces   *)
(* a re-write: when a contact whose entry holds phone p, written less than *)
(* 600 seconds ago, is observed with a raw phone q # p that stands for the *)
(* same number, the observation is not suppressed and ends in a PATCH; and *)
(* the result comes from the cache, with no request to numverify, whenever *)
(* the entry of the number is younger than 3600 seconds.                   *)
(***************************************************************************)
C16_ReformattedPhoneWrites ==
    [][ \A c \in DOMAIN last_updates :
          ( /\ ev'.op \in Observations
            /\ ev'.id = c
            /\ ev'.phone # last_updates[c].data[1]
            /\ ev'.phone # None
            /\ NumberOf(ev'.phone) = NumberOf(last_updates[c].data[1])
            /\ now - last_updates[c].last_update < 600 )
          =>
          /\ ev'.op = "updated"
          /\ ev'.patch # "none"
          /\ ( /\ NumberOf(ev'.phone) \in DOMAIN cached_phones
               /\ now - cached_phones[NumberOf(ev'.phone)][2] < 3600 )
             => ev'.numverify = "hit"
      ]_vars

(***************************************************************************)
(* C16 (amended).  Such an observation is never suppressed: it is resolved *)
(* again.  The result comes from the cache, with no request to numverify,  *)
(* whenever the entry of the number is younger than 3600 seconds; and when *)
(* there is a result (from the cache or from numverify) whose location is  *)
(* a string or missing, the observation ends in a PATCH and the entry now  *)
(* holds q with last_update = now.  When validation fails nothing is       *)
(* written.                                                                *)
(***************************************************************************)
C16_ReformattedPhoneResolved ==
    [][ \A c \in DOMAIN last_updates :
          ( /\ ev'.op \in Observations
            /\ ev'.id = c
            /\ ev'.phone # last_updates[c].data[1]
            /\ ev'.phone # None
            /\ NumberOf(ev'.phone) = NumberOf(last_updates[c].data[1])
            /\ now - last_updates[c].last_update < 600 )
          =>
          /\ ev'.op \in Resolutions
          /\ ( /\ NumberOf(ev'.phone) \in DOMAIN cached_phones
               /\ now - cached_phones[NumberOf(ev'.phone)][2] < 3600 )
             => ev'.numverify = "hit"
          /\ ( /\ ev'.numverify \in {"hit", "valid", "invalid"}
               /\ Get(ev'.phone_info, "location", <<>>) # None )
             => /\ ev'.op = "updated"
                /\ ev'.patch # "none"
                /\ last_updates'[c].data[1] = ev'.phone
                /\ last_updates'[c].last_update = now
          /\ ev'.numverify \in {"none", "error"}
             => /\ ev'.op = "numverify_error"
                /\ ev'.patch = "none"
                /\ last_updates' = last_updates
      ]_vars

\* the second call of a run: contact 1, written with "+7 (912) 345-67-89"
\* by the first call, is observed with "79123456789" in the same window and
\* written again from the cache
C16_Witness ==
    /\ calls = 2
    /\ DOMAIN last_updates = {1}
    /\ ev.op = "updated"
    /\ ev.id = 1
    /\ ev.phone = Phone7
    /\ ev.numverify = "hit"
    /\ ev.patch # "none"
    /\ now - cached_phones[NumberOf(Phone7)][2] < 600

(***************************************************************************)
(* C17.  Unprotected concurrent access: as long as no call of              *)
(* process_contact was entered while another was in flight, two PATCH      *)
(* requests for the contact with the same raw phone and no other phone     *)
(* between them are at least 600 seconds apart; entered by two threads     *)
(* that observe the same contact with the same phone, both calls can pass  *)
(* the suppression test before either assigns last_updates, and the state  *)
(* C17_Witness, with two such PATCH requests inside one window, is         *)
(* reachable.                                                              *)
(***************************************************************************)
C17_OnlyOverlapBreaksWindow ==
    ~overlapped =>
        \A i, j \in 1..Len(written) :
            ( /\ i < j
              /\ written[i].id = written[j].id
              /\ written[i].phone = written[j].phone
              /\ \A k \in (i + 1)..(j - 1) :
                    written[k].phone = written[i].phone )
            => written[j].at - written[i].at >= 600

\* both threads have sent their PATCH for the same contact and phone, less
\* than 600 seconds apart, and neither has assigned last_updates yet
C17_Witness ==
    /\ overlapped
    /\ Len(written) = 2
    /\ written[1].id = written[2].id
    /\ written[1].phone = written[2].phone
    /\ written[2].at - written[1].at < 600
    /\ last_updates = EmptyDict
    /\ \A i \in Threads : i \in DOMAIN threads /\ threads[i].pc = "record"

(***************************************************************************)
(* C18.  The validation cache: after every step, each key of               *)
(* cached_phones is an output of the normalization rule (digits only, and  *)
(* not 11 digits starting with "7"), each entry holds a result whose       *)
(* validity flag is true (never the empty result or an invalid one) and a  *)
(* timestamp not later than the current time; no step removes a key, and   *)
(* the only entry a step adds or overwrites is the one of the number just  *)
(* resolved, stamped with the current time.                                *)
(***************************************************************************)
C18_CacheEntries ==
    [][ /\ \A n \in DOMAIN cached_phones' :
              /\ \A i \in 1..Len(n) : n[i] \in Digits
              /\ ~(Len(n) = 11 /\ n[1] = "7")
              /\ cached_phones'[n][1] # EmptyDict
              /\ Get(cached_phones'[n][1], "valid", FALSE) = TRUE
              /\ cached_phones'[n][2] <= now'
        /\ DOMAIN cached_phones \subseteq DOMAIN cached_phones'
        /\ \A n \in DOMAIN cached_phones' :
              (n \in DOMAIN cached_phones => cached_phones'[n] # cached_phones[n])
              => /\ ev'.numverify = "valid"
                 /\ n = NumberOf(ev'.phone)
                 /\ cached_phones'[n][1] = ev'.phone_info
                 /\ cached_phones'[n][2] = now
      ]_vars

\* two numbers in the cache: one entry from the first poll, by now expired
\* and still there, the other stamped by the call that just cached it
C18_Witness ==
    /\ Cardinality(DOMAIN cached_phones) = 2
    /\ ev.numverify = "valid"
    /\ cached_phones[NumberOf(ev.phone)] = <<ev.phone_info, now>>
    /\ \E n \in DOMAIN cached_phones : now - cached_phones[n][2] >= 3600

(***************************************************************************)
(* C19.  The stored country and region play no part in the decision: an    *)
(* observation of a contact that has an entry is skipped exactly when the  *)
(* raw phone is the stored one and now - last_update < 600; and once 600   *)
(* seconds have passed, an observation with the stored phone whose         *)
(* validation succeeds (from the cache or from numverify, with a location  *)
(* that is a string or missing) sends the PATCH with the resolved country  *)
(* and region and stamps the entry, also when they equal the stored ones.  *)
(***************************************************************************)
C19_RewriteAfterWindow ==
    [][ \A c \in DOMAIN last_updates :
          ( /\ ev'.op \in Observations \ {"no_phone"}
            /\ ev'.id = c )
          =>
          /\ ev'.op = "skip"
                <=> /\ ev'.phone = last_updates[c].data[1]
                    /\ now - last_updates[c].last_update < 600
          /\ ( /\ ev'.phone = last_updates[c].data[1]
               /\ now - last_updates[c].last_update >= 600
               /\ ev'.numverify \in {"hit", "valid"}
               /\ Get(ev'.phone_info, "location", <<>>) # None )
             => /\ ev'.op = "updated"
                /\ ev'.patch # "none"
                /\ ev'.body = <<country_of(ev'.phone_info),
                                location_of(ev'.phone_info)>>
                /\ last_updates'[c] =
                      updated_entry(ev'.phone, ev'.body[1], ev'.body[2], now)
      ]_vars

\* the second call of a run: contact 2 with "89123456789" again, 600 seconds
\* or more after the first, resolved from the entry the first call cached,
\* so PATCHed with the values it already has
C19_Witness ==
    /\ calls = 2
    /\ ev.op = "updated"
    /\ ev.id = 2
    /\ ev.phone = Phone8
    /\ ev.numverify = "hit"
    /\ ev.patch # "none"
    /\ now - cached_phones[NumberOf(Phone8)][2] >= 600
    /\ last_updates[2].last_update = now
    /\ ev.body = <<last_updates[2].data[2], last_updates[2].data[3]>>

====
